---- MODULE Spec2Model ----
(***************************************************************************)
(* Model of src/automated_testing.py: the Selenium login test automation   *)
(* (class AILoginTestAutomation).                                          *)
(*                                                                         *)
(* Strings built by f-strings are modelled as the sequence of their pieces *)
(* (literal text and interpolated values), so two selectors are equal      *)
(* exactly when the formatted strings are equal.  The browser (Selenium    *)
(* WebDriver) is the environment: what a page matches, and whether a       *)
(* driver call raises, is chosen nondeterministically.                     *)
(***************************************************************************)
EXTENDS Integers, Sequences, FiniteSets, TLC

VARIABLES
    \* ---- find_element_with_ai / generate_possible_selectors, called alone
    element_type,        \* argument element_type
    attributes,          \* argument attributes (list of attribute names)
    page,                \* what the browser's page answers to each locator
    possible_selectors,  \* the list generate_possible_selectors returned
    found,               \* outcome of find_element_with_ai
    rpc,                 \* position of the resolver call
    \* ---- determine_login_result, called alone
    current_url,         \* self.driver.current_url
    page_source,         \* self.driver.page_source
    login_result,        \* what determine_login_result returned
    cpc,                 \* position of the classifier call
    \* ---- the object and its output
    results,             \* self.results
    report_log,          \* the reports generate_test_report has printed
    \* ---- test_login_scenarios and execute_login_test
    bpc,                 \* position of main() / test_login_scenarios
    tc,                  \* index in test_cases of the current test_case
    line,                \* position inside execute_login_test
    username_field,      \* local username_field
    password_field,      \* local password_field
    login_button,        \* local login_button
    actual_result,       \* local actual_result
    caught,              \* str(e) of the exception the except clause holds
    raised,              \* the test cases (by index) in which a step raised
    deadline_exceeded,   \* whether an overall deadline for the run has passed
    trace,               \* the statements the current execute_login_test call
                         \* has executed, in order
    started              \* the test cases (by index) execute_login_test was
                         \* called for, in order

rvars == <<element_type, attributes, page, possible_selectors, found, rpc>>
cvars == <<current_url, page_source, login_result, cpc>>
pvars == <<results, report_log>>
bvars == <<bpc, tc, line, username_field, password_field, login_button,
           actual_result, caught, raised, deadline_exceeded, trace, started>>

vars == <<rvars, cvars, pvars, bvars>>

\* ------------------------------------------------------------------ bounds

\* longest attribute list handed to the resolver when it is called alone
MaxHints == 2
\* most candidate selectors a page matches at once
MaxMatch == 2
\* most text fragments a URL or a page source is put together from
MaxFragments == 2
\* longest result list handed to generate_test_report when it is called alone
MaxResults == 4
\* most calls of generate_test_report on one result list
MaxReports == 2

\* ------------------------------------------------------- values of the code

\* None where the code holds a string
None == "None"
\* no exception: str(e) of an exception is a non-empty sequence of pieces
NoException == <<>>

\* the three element_type arguments of execute_login_test
ElementTypes == {"username", "password", "login"}

\* the attribute list execute_login_test passes for each element_type
HintsFor(et) ==
    CASE et = "username" -> <<"id", "name", "placeholder">>
      [] et = "password" -> <<"id", "name", "type">>
      [] et = "login"    -> <<"id", "class", "value">>

\* f'[{attr}*="{element_type}"]'
SubstringSelector(attr, et) == <<"[", attr, "*=\"", et, "\"]">>
\* f'[{attr}="{element_type}"]'
ExactSelector(attr, et) == <<"[", attr, "=\"", et, "\"]">>
\* f'input[{attr}*="{element_type}"]'
InputSelector(attr, et) == <<"input[", attr, "*=\"", et, "\"]">>
\* f'#{element_type}'
IdSelector(et) == <<"#", et>>
\* f'.{element_type}'
ClassSelector(et) == <<".", et>>

\* the five selectors one pass of the loop body extends the list with
SelectorsForAttr(attr, et) ==
    << SubstringSelector(attr, et),
       ExactSelector(attr, et),
       InputSelector(attr, et),
       IdSelector(et),
       ClassSelector(et) >>

RECURSIVE generate_possible_selectors(_, _)
\* selectors = []; for attr in attributes: selectors.extend([...]); return
generate_possible_selectors(et, attrs) ==
    IF attrs = <<>> THEN <<>>
    ELSE SelectorsForAttr(Head(attrs), et)
         \o generate_possible_selectors(et, Tail(attrs))

\* ------------------------------------------------------------ the browser

\* A page answers a presence probe for a CSS selector (page.css: the
\* selectors that match), a By.ID lookup (page.ids) and a By.NAME lookup
\* (page.names).  page.fault names a driver call that raises an exception
\* other than TimeoutException / NoSuchElementException.
Faults == {"none", "wait", "find_by_id", "find_by_name"}

Range(s) == {s[k] : k \in 1..Len(s)}

BoundedSubsets(S, n) == {T \in SUBSET S : Cardinality(T) <= n}

Pages(et, attrs) ==
    [ css   : BoundedSubsets(Range(generate_possible_selectors(et, attrs)), MaxMatch),
      ids   : SUBSET {et},
      names : SUBSET {et},
      fault : Faults ]

\* the WebElement a locator finds: identified by the locator that found it
Element(by, value) == [by |-> by, value |-> value]
\* no WebElement
NoElement == [by |-> "none", value |-> <<>>]
\* By.ID / By.NAME with the element type as the value looked up
ById(et) == Element("id", <<et>>)
ByName(et) == Element("name", <<et>>)

CouldNotLocateUnnamed(et) == <<"Could not locate element">>
\* str(e) of the exception raised at line 141
CouldNotLocate(et) == <<"Could not locate ", et, " element">>
\* str(e) of any other exception the driver raises
WebDriverException == <<"WebDriverException">>

Returned(el, probed) ==
    [outcome |-> "return", element |-> el, exception |-> NoException,
     probed |-> probed]
Raised(msg, probed) ==
    [outcome |-> "raise", element |-> NoElement, exception |-> msg,
     probed |-> probed]
\* find_element_with_ai has not been called
NotCalled ==
    [outcome |-> "none", element |-> NoElement, exception |-> NoException,
     probed |-> <<>>]

\* DirectLookups with the two lookups in the other order (By.NAME first)
DirectLookupsNameFirst(et, pg, probed) ==
    LET p1 == Append(probed, ByName(et))
        p2 == Append(p1, ById(et))
    IN  IF pg.fault = "find_by_name" THEN Raised(WebDriverException, p1)
        ELSE IF et \in pg.names THEN Returned(ByName(et), p1)
        ELSE IF pg.fault = "find_by_id" THEN Raised(WebDriverException, p2)
        ELSE IF et \in pg.ids THEN Returned(ById(et), p2)
        ELSE Raised(CouldNotLocate(et), p2)

\* lines 135-141: the two direct lookups after every candidate timed out
DirectLookups(et, pg, probed) ==
    LET p1 == Append(probed, ById(et))
        p2 == Append(p1, ByName(et))
    IN  IF pg.fault = "find_by_id" THEN Raised(WebDriverException, p1)
        ELSE IF et \in pg.ids THEN Returned(ById(et), p1)
        ELSE IF pg.fault = "find_by_name" THEN Raised(WebDriverException, p2)
        ELSE IF et \in pg.names THEN Returned(ByName(et), p2)
        ELSE Raised(CouldNotLocate(et), p2)

RECURSIVE ScanSelectorsLastMatch(_, _, _, _)
\* ScanSelectors without the early return: a later match replaces an earlier
ScanSelectorsLastMatch(et, rest, pg, probed) ==
    IF rest = <<>> THEN DirectLookups(et, pg, probed)
    ELSE LET selector == Head(rest)
             p == Append(probed, Element("css selector", selector))
             later == ScanSelectorsLastMatch(et, Tail(rest), pg, p)
         IN  IF pg.fault = "wait" THEN Raised(WebDriverException, p)
             ELSE IF selector \in pg.css
                  THEN IF later.outcome = "return"
                          /\ later.element.by = "css selector"
                       THEN later
                       ELSE Returned(Element("css selector", selector), p)
                  ELSE later

RECURSIVE ScanSelectors(_, _, _, _)
\* lines 126-132: the loop over possible_selectors; `rest` is what is left
ScanSelectors(et, rest, pg, probed) ==
    IF rest = <<>> THEN DirectLookups(et, pg, probed)
    ELSE LET selector == Head(rest)
             p == Append(probed, Element("css selector", selector))
         IN  IF pg.fault = "wait" THEN Raised(WebDriverException, p)
             ELSE IF selector \in pg.css
                  THEN Returned(Element("css selector", selector), p)
                  ELSE ScanSelectors(et, Tail(rest), pg, p)

find_element_with_ai(et, attrs, pg) ==
    ScanSelectors(et, generate_possible_selectors(et, attrs), pg, <<>>)

\* ------------------------------------------------ determine_login_result

\* Text is a sequence of one-character strings.
UpperCase == <<"A", "B", "C", "D", "E", "F", "G", "H", "I", "J", "K", "L", "M", "N", "O", "P", "Q", "R", "S", "T", "U", "V", "W", "X", "Y", "Z">>
LowerCase == <<"a", "b", "c", "d", "e", "f", "g", "h", "i", "j", "k", "l", "m", "n", "o", "p", "q", "r", "s", "t", "u", "v", "w", "x", "y", "z">>

\* str.lower() on one character
LowerChar(c) ==
    IF \E k \in 1..Len(UpperCase) : UpperCase[k] = c
    THEN LowerCase[CHOOSE k \in 1..Len(UpperCase) : UpperCase[k] = c]
    ELSE c

\* str.lower()
Lower(text) == [k \in 1..Len(text) |-> LowerChar(text[k])]

\* Python's `indicator in text`: indicator is a contiguous slice of text
In(indicator, text) ==
    \E start \in 1..(Len(text) - Len(indicator) + 1) :
        SubSeq(text, start, start + Len(indicator) - 1) = indicator

\* line 163
success_indicators ==
    << <<"d", "a", "s", "h", "b", "o", "a", "r", "d">>,
       <<"w", "e", "l", "c", "o", "m", "e">>,
       <<"s", "u", "c", "c", "e", "s", "s">>,
       <<"h", "o", "m", "e">> >>
\* line 164
failure_indicators ==
    << <<"e", "r", "r", "o", "r">>,
       <<"i", "n", "v", "a", "l", "i", "d">>,
       <<"f", "a", "i", "l", "u", "r", "e">>,
       <<"l", "o", "g", "i", "n">> >>

RECURSIVE AnyIndicator(_, _, _)
\* `for indicator in indicators: if indicator in current_url.lower() or
\* indicator in page_source: return ...` -- whether the loop returns
AnyIndicator(indicators, url, source) ==
    IF indicators = <<>> THEN FALSE
    ELSE IF In(Head(indicators), Lower(url)) \/ In(Head(indicators), source)
         THEN TRUE
         ELSE AnyIndicator(Tail(indicators), url, source)

\* determine_login_result with the failure indicators checked first
determine_login_result_failure_first(url, raw_source) ==
    LET source == Lower(raw_source)
    IN  IF AnyIndicator(failure_indicators, url, source) THEN "failure"
        ELSE IF AnyIndicator(success_indicators, url, source) THEN "success"
        ELSE "failure"

\* lines 158-179; url is driver.current_url, raw_source driver.page_source
determine_login_result(url, raw_source) ==
    LET source == Lower(raw_source)
    IN  IF AnyIndicator(success_indicators, url, source) THEN "success"
        ELSE IF AnyIndicator(failure_indicators, url, source) THEN "failure"
        ELSE "failure"

\* ---------------------------------------------------- the result records

\* lines 38-63
test_cases ==
    << [name |-> "Valid Credentials", username |-> "testuser",
        password |-> "correctpassword", expected_result |-> "success"],
       [name |-> "Invalid Username", username |-> "wronguser",
        password |-> "correctpassword", expected_result |-> "failure"],
       [name |-> "Invalid Password", username |-> "testuser",
        password |-> "wrongpassword", expected_result |-> "failure"],
       [name |-> "Empty Credentials", username |-> "",
        password |-> "", expected_result |-> "failure"] >>

\* line 104
StatusOf(actual, expected) == IF actual = expected THEN "PASS" ELSE "FAIL"

\* lines 99-106 (the timestamp, the wall-clock time of the return, is left out)
ClassifiedResult(test_case, actual) ==
    [ test_case |-> test_case.name,
      username  |-> test_case.username,
      expected  |-> test_case.expected_result,
      actual    |-> actual,
      status    |-> StatusOf(actual, test_case.expected_result) ]

\* ErrorResult reporting the exception as a failed login
ErrorResultAsFailure(test_case, e) ==
    [ test_case |-> test_case.name,
      username  |-> test_case.username,
      expected  |-> test_case.expected_result,
      actual    |-> "failure",
      status    |-> "ERROR",
      error     |-> e ]

\* lines 109-117 (the timestamp is left out)
ErrorResult(test_case, e) ==
    [ test_case |-> test_case.name,
      username  |-> test_case.username,
      expected  |-> test_case.expected_result,
      actual    |-> "error",
      status    |-> "ERROR",
      error     |-> e ]

\* ---------------------------------------------------- generate_test_report

RECURSIVE CountStatus(_, _)
\* len(df[df['status'] == status])
CountStatus(rs, status) ==
    IF rs = <<>> THEN 0
    ELSE (IF Head(rs).status = status THEN 1 ELSE 0) + CountStatus(Tail(rs), status)

RECURSIVE GCD(_, _)
GCD(a, b) == IF b = 0 THEN a ELSE GCD(b, a % b)

\* the number num / den, in lowest terms (den > 0)
Ratio(num, den) ==
    LET g == GCD(num, den) IN [num |-> num \div g, den |-> den \div g]

\* str(e) of the KeyError df['status'] raises on a DataFrame without columns
KeyErrorStatus == <<"KeyError: ", "status">>

\* lines 204-208: the figures printed
Printed(total, passed, failed, errors, rate) ==
    [ outcome |-> "printed", exception |-> NoException,
      total_tests |-> total, passed_tests |-> passed, failed_tests |-> failed,
      error_tests |-> errors, success_rate |-> rate ]

\* the call raised e before it printed any figure
ReportRaised(e) == [outcome |-> "raise", exception |-> e]

\* generate_test_report counting every result that did not pass as failed
generate_test_report_not_passed_is_failed(rs) ==
    IF rs = <<>> THEN ReportRaised(KeyErrorStatus)
    ELSE LET total_tests == Len(rs)
             passed_tests == CountStatus(rs, "PASS")
             failed_tests == total_tests - passed_tests
             error_tests == CountStatus(rs, "ERROR")
         IN  Printed(total_tests, passed_tests, failed_tests, error_tests,
                     Ratio(passed_tests * 100, total_tests))

\* lines 195-208.  pd.DataFrame([]) has no columns, so on an empty result list
\* df['status'] at line 198 raises KeyError before the division at line 202.
\* success_rate is kept as the exact fraction passed / total * 100.
generate_test_report(rs) ==
    IF rs = <<>> THEN ReportRaised(KeyErrorStatus)
    ELSE LET total_tests == Len(rs)
             passed_tests == CountStatus(rs, "PASS")
             failed_tests == CountStatus(rs, "FAIL")
             error_tests == CountStatus(rs, "ERROR")
         IN  Printed(total_tests, passed_tests, failed_tests, error_tests,
                     Ratio(passed_tests * 100, total_tests))

\* ------------------------------------------ the classifier, called alone

\* pieces of text a URL or a page source is put together from: indicators in
\* mixed case, halves of indicators, and text that holds none
Fragments ==
    { <<"W", "e", "l", "c", "o", "m", "e">>,
      <<"l", "o", "g", "i", "n">>,
      <<"h", "o">>,
      <<"m", "e">>,
      <<"E", "R", "R">>,
      <<"o", "r">>,
      <<"/">> }

RECURSIVE Texts(_)
\* the concatenations of at most n fragments
Texts(n) ==
    IF n = 0 THEN {<<>>}
    ELSE LET shorter == Texts(n - 1)
         IN  shorter \cup {t \o f : t \in shorter, f \in Fragments}

ClassifierIdle ==
    /\ current_url = <<>>
    /\ page_source = <<>>
    /\ login_result = None
    /\ cpc = "idle"

ResolverIdle ==
    /\ element_type = None
    /\ attributes = <<>>
    /\ page = [css |-> {}, ids |-> {}, names |-> {}, fault |-> "none"]
    /\ possible_selectors = <<>>
    /\ found = NotCalled
    /\ rpc = "idle"

BatchIdle ==
    /\ bpc = "idle"
    /\ tc = 0
    /\ line = "idle"
    /\ username_field = NoElement
    /\ password_field = NoElement
    /\ login_button = NoElement
    /\ actual_result = None
    /\ caught = NoException
    /\ raised = {}
    /\ deadline_exceeded = FALSE
    /\ trace = <<>>
    /\ started = <<>>

ClassifyInit ==
    /\ current_url \in Texts(MaxFragments)
    /\ page_source \in Texts(MaxFragments)
    /\ login_result = None
    /\ cpc = "called"
    /\ ResolverIdle
    /\ BatchIdle
    /\ results = <<>>
    /\ report_log = <<>>

\* lines 158-179
Classify ==
    /\ cpc = "called"
    /\ login_result' = determine_login_result(current_url, page_source)
    /\ cpc' = "classified"
    /\ UNCHANGED <<current_url, page_source>>
    /\ UNCHANGED <<rvars, pvars, bvars>>

ClassifyNext == Classify

SpecClassify == ClassifyInit /\ [][ClassifyNext]_vars

\* ------------------------------------------- the resolver, called alone

RECURSIVE SeqsUpTo(_, _)
\* the sequences over S of length 1..n without repeated entries
SeqsUpTo(S, n) ==
    IF n = 0 THEN {}
    ELSE LET shorter == SeqsUpTo(S, n - 1)
         IN  {<<x>> : x \in S} \cup shorter
             \cup {Append(s, x) : s \in shorter, x \in S}

\* the attribute lists tried for et: the attributes the code passes for it,
\* in any order and number
HintLists(et) == {s \in SeqsUpTo(Range(HintsFor(et)), MaxHints) :
                     \A a, b \in 1..Len(s) : a # b => s[a] # s[b]}

ResolveInit ==
    /\ element_type \in ElementTypes
    /\ attributes \in HintLists(element_type)
    /\ page \in Pages(element_type, attributes)
    /\ possible_selectors = <<>>
    /\ found = NotCalled
    /\ rpc = "called"
    /\ ClassifierIdle
    /\ BatchIdle
    /\ results = <<>>
    /\ report_log = <<>>

\* line 124
Generate ==
    /\ rpc = "called"
    /\ possible_selectors' = generate_possible_selectors(element_type, attributes)
    /\ rpc' = "generated"
    /\ UNCHANGED <<element_type, attributes, page, found>>
    /\ UNCHANGED <<cvars, pvars, bvars>>

\* lines 126-141
Resolve ==
    /\ rpc = "generated"
    /\ found' = find_element_with_ai(element_type, attributes, page)
    /\ rpc' = "resolved"
    /\ UNCHANGED <<element_type, attributes, page, possible_selectors>>
    /\ UNCHANGED <<cvars, pvars, bvars>>

ResolveNext == Generate \/ Resolve

SpecResolve == ResolveInit /\ [][ResolveNext]_vars

\* ---------------------------------------------------- resolver properties

CssProbe(selector) == Element("css selector", selector)

\* the positions of possible_selectors the page matches
MatchingPositions ==
    {k \in 1..Len(possible_selectors) : possible_selectors[k] \in page.css}

EveryCandidateTimesOut == MatchingPositions = {}

FirstMatch == CHOOSE k \in MatchingPositions : \A j \in MatchingPositions : k <= j

\* what was probed is exactly the first n candidates, in generation order
ProbedFirst(n) ==
    /\ Len(found.probed) = n
    /\ \A j \in 1..n : found.probed[j] = CssProbe(possible_selectors[j])

\* C5: whenever the page matches some candidate (and the presence probe itself
\* does not break), the resolver returns the element of the earliest matching
\* candidate in generation order, and the candidates probed are exactly those
\* up to and including it: none after the first match is probed or returned.
C5_FirstMatchingCandidateWins ==
    (rpc = "resolved" /\ page.fault # "wait" /\ ~EveryCandidateTimesOut) =>
        /\ found.outcome = "return"
        /\ found.element = CssProbe(possible_selectors[FirstMatch])
        /\ ProbedFirst(FirstMatch)

\* the spec's example: the page matches the exact-match selector of the first
\* hint and that of the second hint; the first hint's is the one returned
C5_Witness ==
    /\ rpc = "resolved"
    /\ page.fault = "none"
    /\ Len(attributes) >= 2
    /\ page.css = {ExactSelector(attributes[1], element_type),
                   ExactSelector(attributes[2], element_type)}
    /\ found.element = CssProbe(ExactSelector(attributes[1], element_type))

\* the probes after the candidate scan
ProbedAfterScan ==
    SubSeq(found.probed, Len(possible_selectors) + 1, Len(found.probed))

\* C6: when every candidate times out the resolver looks up By.ID
\* element_type, and only if that finds nothing By.NAME element_type; it
\* returns the first of the two that hits; and it raises "Could not locate
\* <element_type> element" exactly when every candidate and both lookups found
\* nothing.  No direct lookup is made while a candidate matches.
C6_FallbacksInOrder ==
    rpc = "resolved" =>
        /\ (EveryCandidateTimesOut /\ page.fault = "none") =>
               /\ \A j \in 1..Len(possible_selectors) :
                      found.probed[j] = CssProbe(possible_selectors[j])
               /\ IF element_type \in page.ids
                  THEN /\ found.outcome = "return"
                       /\ found.element = ById(element_type)
                       /\ ProbedAfterScan = <<ById(element_type)>>
                  ELSE /\ ProbedAfterScan = <<ById(element_type),
                                              ByName(element_type)>>
                       /\ IF element_type \in page.names
                          THEN /\ found.outcome = "return"
                               /\ found.element = ByName(element_type)
                          ELSE found.outcome = "raise"
        /\ (found.outcome = "raise" /\ found.exception = CouldNotLocate(element_type))
               <=> /\ EveryCandidateTimesOut
                   /\ element_type \notin page.ids
                   /\ element_type \notin page.names
                   /\ page.fault = "none"
        /\ ~EveryCandidateTimesOut =>
               \A j \in 1..Len(found.probed) : found.probed[j].by = "css selector"

\* every candidate timed out, By.ID found nothing, By.NAME found the element
C6_Witness ==
    /\ rpc = "resolved"
    /\ EveryCandidateTimesOut
    /\ page.fault = "none"
    /\ element_type \notin page.ids
    /\ element_type \in page.names
    /\ found.outcome = "return"
    /\ Len(attributes) >= 2

\* the selectors the claim lists for one hint
ThreePerHint(attr, et) ==
    <<SubstringSelector(attr, et), ExactSelector(attr, et), InputSelector(attr, et)>>

RECURSIVE ThreePerHintAll(_, _)
ThreePerHintAll(et, attrs) ==
    IF attrs = <<>> THEN <<>>
    ELSE ThreePerHint(Head(attrs), et) \o ThreePerHintAll(et, Tail(attrs))

\* C7: for every non-empty hint list the generator returns exactly
\* 3 * |hints| + 2 selectors: three per hint in hint order, then once the
\* id-style and the class-style selector of the element type.
C7_ThreePerHintPlusTwo ==
    rpc # "called" =>
        /\ Len(possible_selectors) = 3 * Len(attributes) + 2
        /\ possible_selectors =
               ThreePerHintAll(element_type, attributes)
               \o <<IdSelector(element_type), ClassSelector(element_type)>>

\* C12: within one call of the resolver no locator is probed against the page
\* more than once, for a hint list of one or more attributes.
C12_NoSelectorProbedTwice ==
    rpc = "resolved" =>
        \A i, j \in 1..Len(found.probed) :
            i # j => found.probed[i] # found.probed[j]

\* --------------------------------------------------- classifier properties

\* keyword occurs in text when letter case is ignored
OccursIgnoringCase(keyword, text) ==
    \E offset \in 0..(Len(text) - Len(keyword)) :
        \A j \in 1..Len(keyword) :
            LowerChar(text[offset + j]) = LowerChar(keyword[j])

SuccessKeywordPresent ==
    \E k \in 1..Len(success_indicators) :
        \/ OccursIgnoringCase(success_indicators[k], current_url)
        \/ OccursIgnoringCase(success_indicators[k], page_source)

FailureKeywordPresent ==
    \E k \in 1..Len(failure_indicators) :
        \/ OccursIgnoringCase(failure_indicators[k], current_url)
        \/ OccursIgnoringCase(failure_indicators[k], page_source)

\* C4: the classifier returns success whenever a success keyword occurs,
\* ignoring case, in the URL or the page content (also when a failure keyword
\* occurs too); otherwise failure whenever a failure keyword occurs; and
\* failure when no keyword of either list occurs.
C4_SuccessKeywordsFirst ==
    cpc = "classified" =>
        /\ SuccessKeywordPresent => login_result = "success"
        /\ (~SuccessKeywordPresent /\ FailureKeywordPresent) => login_result = "failure"
        /\ (~SuccessKeywordPresent /\ ~FailureKeywordPresent) => login_result = "failure"

\* the claim's example: the URL holds "login", the content "Welcome"
C4_Witness ==
    /\ cpc = "classified"
    /\ current_url = <<"/", "l", "o", "g", "i", "n">>
    /\ page_source = <<"W", "e", "l", "c", "o", "m", "e">>
    /\ FailureKeywordPresent
    /\ login_result = "success"

\* -------------------------------------- generate_test_report, called alone

\* one result of each status, as execute_login_test builds them
SampleResults ==
    { ClassifiedResult(test_cases[1], "success"),
      ClassifiedResult(test_cases[1], "failure"),
      ErrorResult(test_cases[1], WebDriverException) }

RECURSIVE ResultLists(_)
\* the result lists of length 0..n
ResultLists(n) ==
    IF n = 0 THEN {<<>>}
    ELSE LET shorter == ResultLists(n - 1)
         IN  shorter \cup {Append(rs, r) : rs \in shorter, r \in SampleResults}

ReportInit ==
    /\ results \in ResultLists(MaxResults)
    /\ report_log = <<>>
    /\ ResolverIdle
    /\ ClassifierIdle
    /\ BatchIdle

\* lines 189-208: one call of generate_test_report on self.results
Report ==
    /\ Len(report_log) < MaxReports
    /\ report_log' = Append(report_log, generate_test_report(results))
    /\ UNCHANGED <<results, rvars, cvars, bvars>>

ReportNext == Report

SpecReport == ReportInit /\ [][ReportNext]_vars

\* ------------------------------------------------------ report properties

NumberWithStatus(status) ==
    Cardinality({k \in 1..Len(results) : results[k].status = status})

\* C8: on a non-empty result list every run of the report prints total = the
\* number of results, passed + failed + errors = total with each bucket the
\* number of results of that status, and success rate = passed / total * 100;
\* a second run on the same list prints the same report as the first.
C8_ReportCountsEveryResultOnce ==
    results # <<>> =>
        \A j \in 1..Len(report_log) :
            LET r == report_log[j]
            IN  /\ r.outcome = "printed"
                /\ r.total_tests = Len(results)
                /\ r.passed_tests = NumberWithStatus("PASS")
                /\ r.failed_tests = NumberWithStatus("FAIL")
                /\ r.error_tests = NumberWithStatus("ERROR")
                /\ r.passed_tests + r.failed_tests + r.error_tests = r.total_tests
                /\ r.success_rate.den > 0
                /\ r.success_rate.num * r.total_tests
                      = r.passed_tests * 100 * r.success_rate.den
                /\ r = report_log[1]

\* the spec's example [Pass, Pass, Fail, Error], reported twice: 50.0 percent
C8_Witness ==
    /\ Len(results) = 4
    /\ results[1].status = "PASS" /\ results[2].status = "PASS"
    /\ results[3].status = "FAIL" /\ results[4].status = "ERROR"
    /\ Len(report_log) = 2
    /\ report_log[2] = Printed(4, 2, 1, 1, [num |-> 50, den |-> 1])

\* C9: on an empty result list the report fails with the dedicated
\* EmptyRunError and prints no counts and no success rate.
C9_EmptyRunError ==
    (results = <<>> /\ report_log # <<>>) =>
        /\ report_log[1].outcome = "raise"
        /\ report_log[1].exception = <<"EmptyRunError">>
        /\ "success_rate" \notin DOMAIN report_log[1]

\* --------------------------------- test_login_scenarios / execute_login_test

\* an except clause that catches only the resolver's own exception
CaughtOnlyCouldNotLocate(e) == e # WebDriverException

\* line 108: `except Exception` catches every exception a step raises
Caught(e) == TRUE

\* results.insert(0, result) in place of results.append(result)
InsertResultFirst(rs, result) == <<result>> \o rs

\* line 69
AppendResult(rs, result) == Append(rs, result)

\* The login pages the batch is run against.  For each control the page
\* either matches the first candidate selector, or answers only the By.ID
\* lookup, or holds no such control; or the driver itself fails.
BatchPages(et) ==
    [ css   : SUBSET {SubstringSelector(HintsFor(et)[1], et)},
      ids   : SUBSET {et},
      names : {{}},
      fault : Faults ]

\* the URLs and page sources the browser shows after the click
BatchTexts ==
    { <<>>,
      <<"/", "l", "o", "g", "i", "n">>,
      <<"W", "e", "l", "c", "o", "m", "e">> }

\* the phase of the scenario a position of execute_login_test belongs to
Phase(l) ==
    CASE l = "get" -> "Start"
      [] l \in {"find_username", "find_password", "find_login"} -> "Resolving"
      [] l \in {"clear_username", "send_username", "clear_password",
                "send_password", "click"} -> "Interacting"
      [] l \in {"sleep", "determine"} -> "Classifying"
      [] l = "return" -> "Done"
      [] l = "except" -> "Errored"
      [] OTHER -> "None"

Init ==
    /\ results = <<>>          \* line 23
    /\ report_log = <<>>
    /\ BatchIdle
    /\ ResolverIdle
    /\ ClassifierIdle

\* line 78
LoginUrl == "https://example.com/login"

\* a statement of execute_login_test as executed: the method called, the
\* WebElement it is called on (if any) and its string argument (if any)
Call(op, on, text) == [op |-> op, on |-> on, text |-> text]

\* the statement of lines 78-97 at position l, with the values the locals
\* hold when it is executed
Statement(l) ==
    CASE l = "get" -> Call("get", NoElement, LoginUrl)
      [] l = "find_username" -> Call("find_element_with_ai", NoElement, "username")
      [] l = "find_password" -> Call("find_element_with_ai", NoElement, "password")
      [] l = "find_login" -> Call("find_element_with_ai", NoElement, "login")
      [] l = "clear_username" -> Call("clear", username_field, "")
      [] l = "send_username" ->
            Call("send_keys", username_field, test_cases[tc].username)
      [] l = "clear_password" -> Call("clear", password_field, "")
      [] l = "send_password" ->
            Call("send_keys", password_field, test_cases[tc].password)
      [] l = "click" -> Call("click", login_button, "")
      [] l = "sleep" -> Call("sleep", NoElement, "2")
      [] l = "determine" -> Call("determine_login_result", NoElement, "")

\* the statement at the current line completes: go on to `next`
Advance(next) ==
    /\ line' = next
    /\ trace' = Append(trace, Statement(line))
    /\ UNCHANGED <<bpc, caught, raised>>

\* the statement at the current line raises e: to the except clause at line
\* 108 if it catches e, else out of test_login_scenarios
Throw(e) ==
    /\ caught' = e
    /\ raised' = raised \cup {tc}
    /\ trace' = Append(trace, Statement(line))
    /\ IF Caught(e)
       THEN line' = "except" /\ bpc' = bpc
       ELSE line' = "idle" /\ bpc' = "crashed"

\* lines 225-228, 36-65: main() calls test_login_scenarios
StartBatch ==
    /\ bpc = "idle"
    /\ bpc' = "loop"
    /\ UNCHANGED <<tc, line, username_field, password_field, login_button,
                   actual_result, caught, raised, deadline_exceeded,
                   trace, started>>
    /\ UNCHANGED <<rvars, cvars, pvars>>

\* lines 67-68: the loop takes the next test_case and calls execute_login_test
CallExecute ==
    /\ bpc = "loop"
    /\ tc < Len(test_cases)
    /\ tc' = tc + 1
    /\ bpc' = "execute"
    /\ line' = "get"
    /\ username_field' = NoElement
    /\ password_field' = NoElement
    /\ login_button' = NoElement
    /\ actual_result' = None
    /\ caught' = NoException
    /\ trace' = <<>>
    /\ started' = Append(started, tc + 1)
    /\ UNCHANGED <<raised, deadline_exceeded>>
    /\ UNCHANGED <<rvars, cvars, pvars>>

\* line 78: self.driver.get(...)
Navigate ==
    /\ bpc = "execute" /\ line = "get"
    /\ \E outcome \in {"ok", "raise"} :
          IF outcome = "ok" THEN Advance("find_username")
          ELSE Throw(WebDriverException)
    /\ UNCHANGED <<tc, username_field, password_field, login_button,
                   actual_result, deadline_exceeded, started>>
    /\ UNCHANGED <<rvars, cvars, pvars>>

\* line 81
FindUsername ==
    /\ bpc = "execute" /\ line = "find_username"
    /\ \E pg \in BatchPages("username") :
          LET r == find_element_with_ai("username", HintsFor("username"), pg)
          IN  IF r.outcome = "return"
              THEN username_field' = r.element /\ Advance("find_password")
              ELSE username_field' = username_field /\ Throw(r.exception)
    /\ UNCHANGED <<tc, password_field, login_button, actual_result,
                   deadline_exceeded, started>>
    /\ UNCHANGED <<rvars, cvars, pvars>>

\* line 82
FindPassword ==
    /\ bpc = "execute" /\ line = "find_password"
    /\ \E pg \in BatchPages("password") :
          LET r == find_element_with_ai("password", HintsFor("password"), pg)
          IN  IF r.outcome = "return"
              THEN password_field' = r.element /\ Advance("find_login")
              ELSE password_field' = password_field /\ Throw(r.exception)
    /\ UNCHANGED <<tc, username_field, login_button, actual_result,
                   deadline_exceeded, started>>
    /\ UNCHANGED <<rvars, cvars, pvars>>

\* line 83
FindLogin ==
    /\ bpc = "execute" /\ line = "find_login"
    /\ \E pg \in BatchPages("login") :
          LET r == find_element_with_ai("login", HintsFor("login"), pg)
          IN  IF r.outcome = "return"
              THEN login_button' = r.element /\ Advance("clear_username")
              ELSE login_button' = login_button /\ Throw(r.exception)
    /\ UNCHANGED <<tc, username_field, password_field, actual_result,
                   deadline_exceeded, started>>
    /\ UNCHANGED <<rvars, cvars, pvars>>

\* a call on a WebElement at position `at`: it completes or it raises
ElementCall(at, next) ==
    /\ bpc = "execute" /\ line = at
    /\ \E outcome \in {"ok", "raise"} :
          IF outcome = "ok" THEN Advance(next) ELSE Throw(WebDriverException)
    /\ UNCHANGED <<tc, username_field, password_field, login_button,
                   actual_result, deadline_exceeded, started>>
    /\ UNCHANGED <<rvars, cvars, pvars>>

\* line 86: username_field.clear()
ClearUsername == ElementCall("clear_username", "send_username")
\* line 87: username_field.send_keys(test_case['username'])
SendUsername == ElementCall("send_username", "clear_password")
\* line 89: password_field.clear()
ClearPassword == ElementCall("clear_password", "send_password")
\* line 90: password_field.send_keys(test_case['password'])
SendPassword == ElementCall("send_password", "click")
ClickLoginThenDetermine == ElementCall("click", "determine")
\* line 93: login_button.click()
ClickLogin == ElementCall("click", "sleep")

\* line 96: time.sleep(2)
Sleep ==
    /\ bpc = "execute" /\ line = "sleep"
    /\ Advance("determine")
    /\ UNCHANGED <<tc, username_field, password_field, login_button,
                   actual_result, deadline_exceeded, started>>
    /\ UNCHANGED <<rvars, cvars, pvars>>

\* line 97: actual_result = self.determine_login_result()
Determine ==
    /\ bpc = "execute" /\ line = "determine"
    /\ \/ \E url \in BatchTexts, source \in BatchTexts :
             /\ actual_result' = determine_login_result(url, source)
             /\ Advance("return")
       \/ /\ actual_result' = actual_result
          /\ Throw(WebDriverException)
    /\ UNCHANGED <<tc, username_field, password_field, login_button,
                   deadline_exceeded, started>>
    /\ UNCHANGED <<rvars, cvars, pvars>>

\* lines 99-106, then lines 68-70 of the caller; the locals end with the call
ReturnResult ==
    /\ bpc = "execute" /\ line = "return"
    /\ results' = AppendResult(results,
                                ClassifiedResult(test_cases[tc], actual_result))
    /\ bpc' = "loop"
    /\ line' = "idle"
    /\ username_field' = NoElement
    /\ password_field' = NoElement
    /\ login_button' = NoElement
    /\ actual_result' = None
    /\ caught' = NoException
    /\ trace' = <<>>
    /\ UNCHANGED <<tc, raised, deadline_exceeded, started>>
    /\ UNCHANGED <<rvars, cvars, report_log>>

\* lines 108-117, then lines 68-70 of the caller; the locals end with the call
ReturnError ==
    /\ bpc = "execute" /\ line = "except"
    /\ results' = AppendResult(results, ErrorResult(test_cases[tc], caught))
    /\ bpc' = "loop"
    /\ line' = "idle"
    /\ username_field' = NoElement
    /\ password_field' = NoElement
    /\ login_button' = NoElement
    /\ actual_result' = None
    /\ caught' = NoException
    /\ trace' = <<>>
    /\ UNCHANGED <<tc, raised, deadline_exceeded, started>>
    /\ UNCHANGED <<rvars, cvars, report_log>>

\* line 72: after the loop, self.generate_test_report()
GenerateReport ==
    /\ bpc = "loop"
    /\ tc = Len(test_cases)
    /\ LET report == generate_test_report(results)
       IN  /\ report_log' = Append(report_log, report)
           /\ bpc' = IF report.outcome = "raise" THEN "crashed" ELSE "finished"
    /\ UNCHANGED <<tc, line, username_field, password_field, login_button,
                   actual_result, caught, raised, deadline_exceeded,
                   trace, started>>
    /\ UNCHANGED <<rvars, cvars, results>>

\* Time passes while test_login_scenarios runs: any overall deadline a caller
\* has in mind is exceeded at some point.  No line of the code reads a clock.
DeadlineElapses ==
    /\ bpc \in {"loop", "execute"}
    /\ ~deadline_exceeded
    /\ deadline_exceeded' = TRUE
    /\ UNCHANGED <<bpc, tc, line, username_field, password_field, login_button,
                   actual_result, caught, raised, trace, started>>
    /\ UNCHANGED <<rvars, cvars, pvars>>

\* the steps of the program
Step ==
    \/ StartBatch
    \/ CallExecute
    \/ Navigate
    \/ FindUsername
    \/ FindPassword
    \/ FindLogin
    \/ ClearUsername
    \/ SendUsername
    \/ ClearPassword
    \/ SendPassword
    \/ ClickLogin
    \/ Sleep
    \/ Determine
    \/ ReturnResult
    \/ ReturnError
    \/ GenerateReport

Next == Step \/ DeadlineElapses

Spec == Init /\ [][Next]_vars

\* The program alone, without the caller's deadline.  Every step returns in
\* bounded time (WebDriverWait(driver, 10) at line 34, time.sleep(2) at line
\* 96), so the single thread always takes its next step.
FairSpec == Init /\ [][Step]_vars /\ WF_vars(Step)

\* ------------------------------------------------------- batch properties

\* C1: every result has status PASS exactly when no step of its scenario
\* raised and actual equals the expected outcome, status ERROR exactly when a
\* step raised, with actual then the sentinel 'error' and never 'success' or
\* 'failure', and status FAIL otherwise.
C1_StatusOfEveryResult ==
    \A k \in 1..Len(results) :
        LET r == results[k]
        IN  /\ r.expected = test_cases[k].expected_result
            /\ r.status \in {"PASS", "FAIL", "ERROR"}
            /\ r.status = "ERROR" <=> k \in raised
            /\ r.status = "ERROR" =>
                   r.actual = "error" /\ r.actual \notin {"success", "failure"}
            /\ r.status = "PASS" <=> (k \notin raised /\ r.actual = r.expected)
            /\ r.status = "FAIL" <=> (k \notin raised /\ r.actual # r.expected)
            /\ r.status # "ERROR" => r.actual \in {"success", "failure"}

\* a run with a passed, a failed and an errored scenario
C1_Witness ==
    /\ Len(results) = Len(test_cases)
    /\ \E a, b, c \in 1..Len(results) :
          /\ results[a].status = "PASS"
          /\ results[b].status = "FAIL"
          /\ results[c].status = "ERROR" /\ c \in raised

\* C2: a step that raises never takes the run out of test_login_scenarios:
\* the scenario it raised in gets an ERROR result, every other scenario is
\* still executed, and the run always goes on to print the report over all
\* scenarios, also when every scenario raised.
C2_FaultsNeverAbortBatch ==
    /\ [](bpc # "crashed")
    /\ [](\A k \in raised : k <= Len(results) => results[k].status = "ERROR")
    /\ [](bpc = "finished" => Len(results) = Len(test_cases))
    /\ <>(/\ bpc = "finished"
          /\ Len(report_log) = 1
          /\ report_log[1].outcome = "printed"
          /\ report_log[1].total_tests = Len(test_cases))

\* every scenario raised, and the report was printed
C2_Witness ==
    /\ bpc = "finished"
    /\ raised = 1..Len(test_cases)
    /\ report_log # <<>>
    /\ report_log[1].error_tests = Len(test_cases)

\* C3: the results hold one result per scenario executed so far, in input
\* order (the k-th carries the k-th scenario's name and expected outcome),
\* all of them once the run is over; and no step changes or drops a result
\* that is already there.
C3_OneResultPerScenarioInOrder ==
    /\ [](/\ Len(results) = (IF bpc = "execute" THEN tc - 1 ELSE tc)
          /\ \A k \in 1..Len(results) :
                /\ results[k].test_case = test_cases[k].name
                /\ results[k].expected = test_cases[k].expected_result
          /\ bpc = "finished" => Len(results) = Len(test_cases))
    /\ [][/\ Len(results') >= Len(results)
          /\ \A k \in 1..Len(results) : results'[k] = results[k]]_vars

\* the run is over, with an errored scenario between classified ones
C3_Witness ==
    /\ bpc = "finished"
    /\ Len(results) = 4
    /\ results[1].status = "PASS"
    /\ results[2].status = "ERROR"
    /\ results[3].status = "FAIL"
    /\ results[4].test_case = "Empty Credentials"

\* str(e) a timeout cause would carry
DeadlineExceeded == <<"deadline exceeded">>

\* C10: once the overall deadline is exceeded, a scenario that is still
\* resolving or interacting is abandoned: its next step is into the error
\* path with a timeout cause; and the results completed before are kept.
C10_DeadlineAbandonsScenario ==
    [][/\ (/\ deadline_exceeded
           /\ bpc = "execute"
           /\ Phase(line) \in {"Resolving", "Interacting"})
          => (line' = "except" /\ caught' = DeadlineExceeded)
       /\ \A k \in 1..Len(results) : results'[k] = results[k]]_vars

\* the phases of one scenario in their order; Errored stands outside it
PhaseRank(ph) ==
    CASE ph = "Start" -> 1
      [] ph = "Resolving" -> 2
      [] ph = "Interacting" -> 3
      [] ph = "Classifying" -> 4
      [] ph = "Done" -> 5
      [] OTHER -> 0

\* a step from phase a to phase b that the phase order allows: staying in
\* the phase, going on to the next one, failing into Errored, and from a
\* terminal phase only the end of the scenario
PhaseStep(a, b) ==
    \/ b = a
    \/ /\ a \in {"Start", "Resolving", "Interacting", "Classifying"}
       /\ b = "Errored" \/ PhaseRank(b) = PhaseRank(a) + 1
    \/ a \in {"Done", "Errored"} /\ b = "None"
    \/ a = "None" /\ b = "Start"

\* the positions of a scenario that runs to its end, in order
PositionOrder ==
    << "get", "find_username", "find_password", "find_login",
       "clear_username", "send_username", "clear_password", "send_password",
       "click", "sleep", "determine", "return" >>

\* what a scenario that runs to its end does, in order, on the elements
\* u, p, b resolved for the username, the password and the submit control
ExpectedTrace(test_case, u, p, b) ==
    << Call("get", NoElement, LoginUrl),
       Call("find_element_with_ai", NoElement, "username"),
       Call("find_element_with_ai", NoElement, "password"),
       Call("find_element_with_ai", NoElement, "login"),
       Call("clear", u, ""),
       Call("send_keys", u, test_case.username),
       Call("clear", p, ""),
       Call("send_keys", p, test_case.password),
       Call("click", b, ""),
       Call("sleep", NoElement, "2"),
       Call("determine_login_result", NoElement, "") >>

\* el is an element that was found by looking for element type et
ResolvedFor(el, et) ==
    /\ el # NoElement
    /\ \E k \in DOMAIN el.value : el.value[k] = et

\* C11: a scenario goes through Start, Resolving, Interacting, Classifying,
\* Done in that order, none skipped or revisited; a phase before Done may
\* instead go to Errored; from Done and Errored the scenario only ends.
\* What it has done is always the beginning of: load the page, resolve
\* username, password, submit, clear and type the username, clear and type
\* the password, click submit, sleep, classify -- so the page is read for
\* classification only after the click and the delay.
C11_PhasesAndCallsInOrder ==
    /\ [][PhaseStep(Phase(line), Phase(line'))]_vars
    /\ [](bpc = "execute" =>
            LET full == ExpectedTrace(test_cases[tc], username_field,
                                      password_field, login_button)
            IN  /\ Len(trace) <= Len(full)
                /\ \A i \in 1..Len(trace) : trace[i] = full[i]
                /\ line # "except" => line = PositionOrder[Len(trace) + 1]
                /\ line = "except" => Len(trace) >= 1
                /\ PhaseRank(Phase(line)) >= 3 =>
                       /\ ResolvedFor(username_field, "username")
                       /\ ResolvedFor(password_field, "password")
                       /\ ResolvedFor(login_button, "login")
                /\ \A i \in 1..Len(trace) :
                       trace[i].op = "determine_login_result" =>
                           /\ i >= 3
                           /\ trace[i - 2].op = "click"
                           /\ trace[i - 1].op = "sleep")

\* a scenario that reached Done, having done all eleven steps in order
C11_Witness ==
    /\ bpc = "execute"
    /\ line = "return"
    /\ actual_result = "success"
    /\ trace = ExpectedTrace(test_cases[tc], username_field, password_field,
                             login_button)
    /\ username_field # password_field
    /\ password_field # login_button

\* the last call to find_element_with_ai raised because the element could
\* not be located (line 141), and the scenario is in its except clause
ResolutionFailed ==
    /\ bpc = "execute"
    /\ line = "except"
    /\ trace # <<>>
    /\ trace[Len(trace)].op = "find_element_with_ai"
    /\ caught # WebDriverException

\* C13: when one of the three elements cannot be located, the scenario has
\* cleared, typed into and clicked nothing and has classified nothing, it
\* loaded the page once and was called once (no scenario is ever called
\* twice), and the step that follows appends its result with status ERROR
\* and an error message that contains the element type looked for, and
\* leaves the scenario.
C13_ResolutionFailureShortCircuits ==
    /\ [](ResolutionFailed =>
            /\ \A i \in 1..Len(trace) :
                   trace[i].op \notin {"clear", "send_keys", "click", "sleep",
                                       "determine_login_result"}
            /\ actual_result = None
            /\ Cardinality({i \in DOMAIN trace : trace[i].op = "get"}) = 1
            /\ Cardinality({i \in DOMAIN started : started[i] = tc}) = 1)
    /\ [](\A i \in DOMAIN started : started[i] = i)
    /\ [][(ResolutionFailed /\ line' # line) =>
            LET role == trace[Len(trace)].text
                result == results'[Len(results')]
            IN  /\ Len(results') = Len(results) + 1
                /\ result.test_case = test_cases[tc].name
                /\ result.status = "ERROR"
                /\ \E i \in DOMAIN result.error : result.error[i] = role
                /\ bpc' = "loop" /\ tc' = tc
                /\ started' = started]_vars

\* the second scenario could not locate its third element, after the first
\* scenario ran to its end
C13_Witness ==
    /\ ResolutionFailed
    /\ tc = 2
    /\ trace[Len(trace)].text = "login"
    /\ caught = <<"Could not locate ", "login", " element">>
    /\ results[1].status = "PASS"

====
